---- MODULE Spec2Model ----
(***************************************************************************)
(* CreateHybridCollectionRequest (milvus server, delivery layer).          *)
(*                                                                         *)
(* A request object is built from a collection name, three maps keyed by   *)
(* field name (data type, index document, raw parameter text) and a        *)
(* request-level extra document.  OnExecute validates the name, walks the  *)
(* type map building one FieldSchema per field while tracking the vector   *)
(* attributes, assembles the CollectionSchema, calls the storage engine    *)
(* once and maps the engine status to the caller-facing status.  Any C++   *)
(* exception raised on the way is caught by the try block that spans the   *)
(* whole body and turned into SERVER_UNEXPECTED_ERROR.                     *)
(*                                                                         *)
(* The fiu_do_on fail points (lines 61 and 118) expand to nothing unless   *)
(* the build defines FIU_ENABLE; the model is of the build without it.     *)
(* TimeRecorderAuto only logs.                                             *)
(***************************************************************************)
EXTENDS Integers, Sequences, FiniteSets, TLC

\* Largest number of fields in a request's type map.
MaxFields == 2
\* Number of requests executing concurrently in SpecConc.
NumRequests == 2

(***************************************************************************)
(* Status                                                                  *)
(***************************************************************************)
Status(code, message) == [code |-> code, message |-> message]

StatusOK == Status("SERVER_SUCCESS", "")

\* The value of result[r] while OnExecute has not returned.
Pending == Status("PENDING", "")

(***************************************************************************)
(* milvus::json (nlohmann::json).  A value is a string or a number; a      *)
(* document is null (default constructed) or an object, a function from    *)
(* its keys to values.                                                     *)
(***************************************************************************)
JStr(s) == [kind |-> "string", str |-> s, num |-> 0]

JNum(n) == [kind |-> "number", str |-> "", num |-> n]

NoMembers == [k \in {} |-> JNum(0)]

JNull == [kind |-> "null", obj |-> NoMembers]

JObj(f) == [kind |-> "object", obj |-> f]

\* json::contains(key): false on anything that is not an object.
Contains(j, key) == j.kind = "object" /\ key \in DOMAIN j.obj

\* The keys the request reads, in the order json::dump writes them
\* (an object's members are kept sorted by key).
KeyOrder == <<"dimension", "index_type", "metric_type", "name", "segment_size">>

\* json::dump(): the text of a document, its members in key order.
Dump(j) ==
    LET ks == SelectSeq(KeyOrder, LAMBDA k : Contains(j, k))
    IN  [wellformed |-> TRUE,
         top        |-> j.kind,
         members    |-> [n \in 1..Len(ks) |-> [key |-> ks[n], value |-> j.obj[ks[n]]]]]

\* A std::string that is not JSON text.
MalformedText == [wellformed |-> FALSE, top |-> "object", members |-> <<>>]

\* json::parse(text) of well-formed text: the document whose members are the
\* text's; of a repeated key the last member stands.
Parse(text) ==
    IF text.top = "null" THEN JNull
    ELSE LET keys == {text.members[n].key : n \in 1..Len(text.members)}
             last(k) == CHOOSE n \in 1..Len(text.members) :
                            /\ text.members[n].key = k
                            /\ \A m \in 1..Len(text.members) :
                                   text.members[m].key = k => m <= n
         IN  JObj([k \in keys |-> text.members[last(k)].value])

\* get<uint16_t>() of a number: static_cast to 16 bits.
ToUint16(n) == n % 65536

(***************************************************************************)
(* engine::meta types                                                      *)
(***************************************************************************)
\* A member that keeps its default because nothing was assigned to it.
Unset == [has |-> FALSE, val |-> 0]

Assigned(v) == [has |-> TRUE, val |-> v]

DataTypes == {"INT64", "FLOAT_VECTOR", "BINARY_VECTOR"}

\* A variant of the test of lines 91-92 that holds of every type.
IsVectorTypeAny(t) == t \in DataTypes

\* The test of lines 91-92.
IsVectorType(t) == t = "FLOAT_VECTOR" \/ t = "BINARY_VECTOR"

\* engine::s_map_metric_type and engine::s_map_engine_type (db/Utils.h).
s_map_metric_type == ("L2" :> 1) @@ ("IP" :> 2)

s_map_engine_type == ("FLAT" :> 1) @@ ("IVF_FLAT" :> 2)

\* engine::meta::CollectionSchema as declared at line 70.
EmptyCollectionSchema ==
    [collection_id_   |-> "",
     dimension_       |-> 0,
     index_file_size_ |-> Unset,
     metric_type_     |-> Unset,
     engine_type_     |-> Unset]

(***************************************************************************)
(* Collaborators                                                           *)
(***************************************************************************)
\* Names the validator rejects: the empty name, a name starting with a digit.
InvalidNames == {"", "9c"}

\* ValidateCollectionName (server/ValidationUtil).
ValidateCollectionName(name) ==
    IF name \in InvalidNames
    THEN Status("SERVER_INVALID_COLLECTION_NAME", "Invalid collection name")
    ELSE StatusOK

\* Whether the engine's catalog holds a collection of that name.
HasCollection(cat, name) ==
    \E n \in 1..Len(cat) : cat[n].collection.collection_id_ = name

\* DBWrapper::DB()->CreateHybridCollection: the outcomes the engine can give.
\* The create is atomic and refuses a name the catalog holds; otherwise it
\* stores the collection, or fails for a reason of its own.
DB_CreateHybridCollection(cat, collection_info, fields_schema) ==
    IF HasCollection(cat, collection_info.collection_id_)
    THEN {[status  |-> Status("DB_ALREADY_EXIST", "Collection already exists"),
           catalog |-> cat]}
    ELSE {[status  |-> StatusOK,
           catalog |-> Append(cat, [collection |-> collection_info,
                                    fields     |-> fields_schema])],
          [status  |-> Status("DB_META_TRANSACTION_FAILED", "Meta transaction failed"),
           catalog |-> cat]}

(***************************************************************************)
(* The request object                                                      *)
(***************************************************************************)
\* The constructor (lines 30-40): the initializer list copies the name and
\* the three maps; extra_params is not in it, so the member extra_params_
\* stays a default-constructed json.
NewRequest(collection_name, field_types, field_index_params, field_params, extra_params) ==
    [collection_name_    |-> collection_name,
     field_types_        |-> field_types,
     field_index_params_ |-> field_index_params,
     field_params_       |-> field_params,
     extra_params_       |-> JNull]

(***************************************************************************)
(* OnExecute, step 2: one iteration of the loop over field_types_          *)
(***************************************************************************)
\* The locals after an iteration; thrown names the exception, "" for none.
LoopState(thrown, fs, dim, vp) ==
    [thrown |-> thrown, fields_schema |-> fs, dimension |-> dim, vector_param |-> vp]

\* A variant of lines 76-88 without lines 82-84: the index name is never stored.
BuildFieldSchemaNoIndexName(req, field_name) ==
    [collection_id_ |-> req.collection_name_,
     field_name_    |-> field_name,
     field_type_    |-> req.field_types_[field_name],
     index_name_    |-> "",
     index_param_   |-> Dump(req.field_index_params_[field_name]),
     field_params_  |-> req.field_params_[field_name]]

\* Lines 76-88: the FieldSchema of a field whose lookups succeeded.
BuildFieldSchema(req, field_name) ==
    LET index_params == req.field_index_params_[field_name]
    IN  [collection_id_ |-> req.collection_name_,
         field_name_    |-> field_name,
         field_type_    |-> req.field_types_[field_name],
         index_name_    |-> IF Contains(index_params, "name")
                            THEN index_params.obj["name"].str
                            ELSE "",
         index_param_   |-> Dump(index_params),
         field_params_  |-> req.field_params_[field_name]]

\* A variant of lines 94-96 in which a dimension, once set, is kept.
UpdateDimensionKeepFirst(dimension, vector_param) ==
    IF Contains(vector_param, "dimension") /\ dimension = 0
    THEN ToUint16(vector_param.obj["dimension"].num)
    ELSE dimension

\* Lines 94-96: the running dimension after a vector field's document.
UpdateDimension(dimension, vector_param) ==
    IF Contains(vector_param, "dimension")
    THEN ToUint16(vector_param.obj["dimension"].num)
    ELSE dimension

\* A variant of lines 75-98 with find() in place of at(): a field with no
\* entry in a parameter map is passed over.
VisitFieldSkipMissing(req, field_name, fs, dim, vp) ==
    IF \/ field_name \notin DOMAIN req.field_index_params_
       \/ field_name \notin DOMAIN req.field_params_
    THEN LoopState("", fs, dim, vp)
    ELSE IF /\ Contains(req.field_index_params_[field_name], "name")
            /\ req.field_index_params_[field_name].obj["name"].kind # "string"
    THEN LoopState("type_error", fs, dim, vp)
    ELSE LET fs2 == Append(fs, BuildFieldSchema(req, field_name))
             field_param == req.field_params_[field_name]
         IN  IF ~IsVectorType(req.field_types_[field_name])
             THEN LoopState("", fs2, dim, vp)
             ELSE IF ~field_param.wellformed
             THEN LoopState("parse_error", fs2, dim, vp)
             ELSE IF /\ Contains(Parse(field_param), "dimension")
                     /\ Parse(field_param).obj["dimension"].kind # "number"
             THEN LoopState("type_error", fs2, dim, Parse(field_param))
             ELSE LoopState("", fs2, UpdateDimension(dim, Parse(field_param)),
                            Parse(field_param))

\* Lines 75-98: the body of the loop for one field.
VisitField(req, field_name, fs, dim, vp) ==
    IF field_name \notin DOMAIN req.field_index_params_
    THEN LoopState("out_of_range", fs, dim, vp)                       \* line 78
    ELSE IF /\ Contains(req.field_index_params_[field_name], "name")
            /\ req.field_index_params_[field_name].obj["name"].kind # "string"
    THEN LoopState("type_error", fs, dim, vp)                         \* line 83
    ELSE IF field_name \notin DOMAIN req.field_params_
    THEN LoopState("out_of_range", fs, dim, vp)                       \* line 87
    ELSE LET fs2 == Append(fs, BuildFieldSchema(req, field_name))     \* line 89
             field_param == req.field_params_[field_name]
         IN  IF ~IsVectorType(req.field_types_[field_name])
             THEN LoopState("", fs2, dim, vp)
             ELSE IF ~field_param.wellformed
             THEN LoopState("parse_error", fs2, dim, vp)              \* line 93
             ELSE IF /\ Contains(Parse(field_param), "dimension")
                     /\ Parse(field_param).obj["dimension"].kind # "number"
             THEN LoopState("type_error", fs2, dim, Parse(field_param)) \* line 95
             ELSE LoopState("", fs2, UpdateDimension(dim, Parse(field_param)),
                            Parse(field_param))

(***************************************************************************)
(* OnExecute, lines 100-114: the CollectionSchema                          *)
(***************************************************************************)
\* Lines 102-104.
ReadSegmentSize(extra_params_) ==
    IF Contains(extra_params_, "segment_size")
    THEN Assigned(extra_params_.obj["segment_size"].num)
    ELSE Unset

\* A variant of lines 106-114 with find() in place of at(): a string that is
\* no key of the table leaves the code unset.
ResolveCodeLenient(vector_param, key, table) ==
    IF ~Contains(vector_param, key) THEN [thrown |-> "", code |-> Unset]
    ELSE IF vector_param.obj[key].kind # "string"
    THEN [thrown |-> "type_error", code |-> Unset]
    ELSE IF vector_param.obj[key].str \notin DOMAIN table
    THEN [thrown |-> "", code |-> Unset]
    ELSE [thrown |-> "", code |-> Assigned(table[vector_param.obj[key].str])]

\* Lines 106-109 and 111-114: a string looked up in a table with at().
\* thrown names the exception of a value that is no string or no key.
ResolveCode(vector_param, key, table) ==
    IF ~Contains(vector_param, key) THEN [thrown |-> "", code |-> Unset]
    ELSE IF vector_param.obj[key].kind # "string"
    THEN [thrown |-> "type_error", code |-> Unset]
    ELSE IF vector_param.obj[key].str \notin DOMAIN table
    THEN [thrown |-> "out_of_range", code |-> Unset]
    ELSE [thrown |-> "", code |-> Assigned(table[vector_param.obj[key].str])]

\* Lines 100-114.
AssembleCollectionInfo(req, dim, vp) ==
    LET size   == IF /\ Contains(req.extra_params_, "segment_size")
                     /\ req.extra_params_.obj["segment_size"].kind # "number"
                  THEN "type_error" ELSE ""
        metric == ResolveCode(vp, "metric_type", s_map_metric_type)
        engine == ResolveCode(vp, "index_type", s_map_engine_type)
    IN  [thrown |-> IF size # "" THEN size
                    ELSE IF metric.thrown # "" THEN metric.thrown
                    ELSE engine.thrown,
         info   |-> [collection_id_   |-> req.collection_name_,
                     dimension_       |-> dim,
                     index_file_size_ |-> ReadSegmentSize(req.extra_params_),
                     metric_type_     |-> metric.code,
                     engine_type_     |-> engine.code]]

(***************************************************************************)
(* OnExecute, lines 120-131: the status returned after the engine call     *)
(***************************************************************************)
\* A variant of lines 120-131 without the branch of lines 122-124.
MapEngineStatusNoRemap(status) ==
    IF status.code # "SERVER_SUCCESS" THEN status ELSE StatusOK

\* A variant of lines 120-131 that reports every failure but the conflict as
\* unexpected.
MapEngineStatusWrapOther(status) ==
    IF status.code # "SERVER_SUCCESS"
    THEN IF status.code = "DB_ALREADY_EXIST"
         THEN Status("SERVER_INVALID_COLLECTION_NAME", status.message)
         ELSE Status("SERVER_UNEXPECTED_ERROR", status.message)
    ELSE StatusOK

MapEngineStatus(status) ==
    IF status.code # "SERVER_SUCCESS"
    THEN IF status.code = "DB_ALREADY_EXIST"
         THEN Status("SERVER_INVALID_COLLECTION_NAME", status.message)
         ELSE status
    ELSE StatusOK

\* Lines 127-129: the catch block.
CatchException(what) == Status("SERVER_UNEXPECTED_ERROR", what)

(***************************************************************************)
(* The requests the model executes                                         *)
(***************************************************************************)
\* Field names; a request's fields are FieldNames[1..n].
FieldNames == <<"f1", "f2", "f3", "f4">>

\* A key of both parameter maps that is no field of the type map.
StrayName == "stray"

NominalIndex == JObj("name" :> JStr("idx"))

NominalDoc ==
    JObj(("dimension" :> JNum(8)) @@ ("metric_type" :> JStr("L2"))
         @@ ("index_type" :> JStr("IVF_FLAT")))

\* The well-typed values a parameter document may give a key: two dimensions
\* (the second wider than 16 bits) and one known name of each table.
GoodValues(key) ==
    CASE key = "dimension"   -> {JNum(8), JNum(65552)}
      [] key = "metric_type" -> {JStr("L2")}
      [] key = "index_type"  -> {JStr("IVF_FLAT")}

\* Every document over a subset of the three keys with well-typed values.
GoodDocs ==
    UNION {{JObj(f) : f \in {g \in [S -> UNION {GoodValues(k) : k \in S}] :
                                 \A k \in S : g[k] \in GoodValues(k)}} :
           S \in SUBSET {"dimension", "metric_type", "index_type"}}

\* The nominal document with one value replaced by one the code rejects.
BadDocs ==
    {JObj([NominalDoc.obj EXCEPT !["metric_type"] = JStr("BOGUS")]),
     JObj([NominalDoc.obj EXCEPT !["index_type"] = JStr("BOGUS")]),
     JObj([NominalDoc.obj EXCEPT !["dimension"] = JStr("128")])}

\* An entry of a map: present with a value, or absent.
Present(v) == [has |-> TRUE, val |-> v]

AbsentIndex == [has |-> FALSE, val |-> JNull]

AbsentParam == [has |-> FALSE, val |-> MalformedText]

IndexChoices ==
    {AbsentIndex, Present(JObj(NoMembers)), Present(NominalIndex),
     Present(JObj("name" :> JNum(7)))}

ParamChoices ==
    {AbsentParam, Present(MalformedText)}
    \cup {Present(Dump(d)) : d \in GoodDocs \cup BadDocs}

\* What a request says of one field.  Each field departs from the nominal
\* field (index document with a name, full parameter document) in its
\* parameter entry, or in its type and index entry; a scalar field may also
\* have no parameter entry, no entry at all, or a parameter text that is
\* not JSON.
FieldConfigs ==
    {[type |-> "FLOAT_VECTOR", index |-> Present(NominalIndex), param |-> p] :
        p \in ParamChoices}
    \cup {[type |-> t, index |-> ix, param |-> Present(Dump(NominalDoc))] :
        t \in DataTypes, ix \in IndexChoices}
    \cup {[type |-> "INT64", index |-> ix, param |-> AbsentParam] :
        ix \in {AbsentIndex, Present(NominalIndex)}}
    \cup {[type |-> "INT64", index |-> Present(NominalIndex),
           param |-> Present(MalformedText)]}

FieldSeqs == UNION {[1..n -> FieldConfigs] : n \in 0..MaxFields}

\* The engine's catalog before any request: one collection, "c0".
InitialCatalog ==
    <<[collection |-> [EmptyCollectionSchema EXCEPT !.collection_id_ = "c0"],
       fields     |-> <<>>]>>

ExtraChoices == {JObj(NoMembers), JObj("segment_size" :> JNum(1024))}

\* The arguments of Create: a name (new to the engine, or one the validator
\* rejects), the extra document, the fields.
RequestInputs ==
    [name : {"c1", ""}, extra : ExtraChoices, cfgs : FieldSeqs]

\* The arguments of the requests that run concurrently: the name is one the
\* engine holds, a new one, or one the validator rejects.
ConcInputs ==
    [name  : {"c0", "c1", "9c"},
     extra : {JObj(NoMembers)},
     cfgs  : {<<>>,
              <<[type |-> "FLOAT_VECTOR", index |-> Present(NominalIndex),
                 param |-> Present(Dump(NominalDoc))]>>,
              <<[type |-> "INT64", index |-> AbsentIndex,
                 param |-> Present(Dump(NominalDoc))]>>}]

\* The three maps Create is given for a sequence of fields.
TypeMap(cfgs) == [f \in {FieldNames[n] : n \in 1..Len(cfgs)} |->
                     cfgs[CHOOSE n \in 1..Len(cfgs) : FieldNames[n] = f].type]

IndexMap(cfgs) ==
    [f \in {FieldNames[n] : n \in {m \in 1..Len(cfgs) : cfgs[m].index.has}}
           \cup {StrayName} |->
        IF f = StrayName THEN NominalIndex
        ELSE cfgs[CHOOSE n \in 1..Len(cfgs) : FieldNames[n] = f].index.val]

ParamMap(cfgs) ==
    [f \in {FieldNames[n] : n \in {m \in 1..Len(cfgs) : cfgs[m].param.has}}
           \cup {StrayName} |->
        IF f = StrayName THEN Dump(NominalDoc)
        ELSE cfgs[CHOOSE n \in 1..Len(cfgs) : FieldNames[n] = f].param.val]

(***************************************************************************)
(* State                                                                   *)
(***************************************************************************)
VARIABLES
    request,          \* r -> the request object
    order,            \* r -> the order in which field_types_ is iterated
    extra_arg,        \* r -> the extra_params argument Create was given
    pc,               \* r -> where OnExecute stands
    idx,              \* r -> position of the loop in order[r]
    fields_schema,    \* r -> the local fields_schema.fields_schema_
    dimension,        \* r -> the local dimension
    vector_param,     \* r -> the local vector_param
    collection_info,  \* r -> the local collection_info
    result,           \* r -> the Status OnExecute returned
    engine_log,       \* r -> the calls r made to the engine, with their status
    catalog           \* the engine's collections

vars == <<request, order, extra_arg, pc, idx, fields_schema, dimension,
          vector_param, collection_info, result, engine_log, catalog>>

Reqs == DOMAIN pc

\* The state after Create (lines 42-51) built each request of inputs.
InitWith(inputs) ==
    /\ request = [r \in DOMAIN inputs |->
                     NewRequest(inputs[r].name, TypeMap(inputs[r].cfgs),
                                IndexMap(inputs[r].cfgs), ParamMap(inputs[r].cfgs),
                                inputs[r].extra)]
    /\ order = [r \in DOMAIN inputs |->
                   [n \in 1..Len(inputs[r].cfgs) |-> FieldNames[n]]]
    /\ extra_arg = [r \in DOMAIN inputs |-> inputs[r].extra]
    /\ pc = [r \in DOMAIN inputs |-> "validate"]
    /\ idx = [r \in DOMAIN inputs |-> 1]
    /\ fields_schema = [r \in DOMAIN inputs |-> <<>>]
    /\ dimension = [r \in DOMAIN inputs |-> 0]
    /\ vector_param = [r \in DOMAIN inputs |-> JNull]
    /\ collection_info = [r \in DOMAIN inputs |-> EmptyCollectionSchema]
    /\ result = [r \in DOMAIN inputs |-> Pending]
    /\ engine_log = [r \in DOMAIN inputs |-> <<>>]
    /\ catalog = InitialCatalog

\* One request.
Init == \E inp \in RequestInputs : InitWith([r \in {1} |-> inp])

\* NumRequests requests, each on a thread of the request scheduler.
InitConc == \E inps \in [1..NumRequests -> ConcInputs] : InitWith(inps)

(***************************************************************************)
(* OnExecute                                                               *)
(***************************************************************************)
\* A variant of lines 58-74 without the return of lines 63-65.
ValidateIgnoringStatus(r) ==
    /\ pc[r] = "validate"
    /\ result' = result
    /\ pc' = [pc EXCEPT ![r] = IF Len(order[r]) = 0 THEN "assemble" ELSE "loop"]
    /\ UNCHANGED <<request, order, extra_arg, idx, fields_schema, dimension,
                   vector_param, collection_info, engine_log, catalog>>

\* Lines 58-74: step 1, and the declaration of the locals of step 2.
Validate(r) ==
    /\ pc[r] = "validate"
    /\ LET status == ValidateCollectionName(request[r].collection_name_)
       IN  IF status.code # "SERVER_SUCCESS"
           THEN /\ result' = [result EXCEPT ![r] = status]
                /\ pc' = [pc EXCEPT ![r] = "done"]
           ELSE /\ result' = result
                /\ pc' = [pc EXCEPT ![r] =
                             IF Len(order[r]) = 0 THEN "assemble" ELSE "loop"]
    /\ UNCHANGED <<request, order, extra_arg, idx, fields_schema, dimension,
                   vector_param, collection_info, engine_log, catalog>>

\* A variant of lines 75-98 with the exception caught inside the loop, which
\* it ends: the request goes on with the fields built so far.
FieldStepSwallow(r) ==
    /\ pc[r] = "loop"
    /\ LET after == VisitField(request[r], order[r][idx[r]], fields_schema[r],
                               dimension[r], vector_param[r])
       IN  /\ fields_schema' = [fields_schema EXCEPT ![r] = after.fields_schema]
           /\ dimension' = [dimension EXCEPT ![r] = after.dimension]
           /\ vector_param' = [vector_param EXCEPT ![r] = after.vector_param]
           /\ result' = result
           /\ idx' = [idx EXCEPT ![r] = idx[r] + 1]
           /\ pc' = [pc EXCEPT ![r] =
                        IF idx[r] = Len(order[r]) \/ after.thrown # ""
                        THEN "assemble" ELSE "loop"]
    /\ UNCHANGED <<request, order, extra_arg, collection_info, engine_log, catalog>>

\* Lines 75-98: one iteration; an exception leaves through the catch block.
FieldStep(r) ==
    /\ pc[r] = "loop"
    /\ LET after == VisitField(request[r], order[r][idx[r]], fields_schema[r],
                               dimension[r], vector_param[r])
       IN  /\ fields_schema' = [fields_schema EXCEPT ![r] = after.fields_schema]
           /\ dimension' = [dimension EXCEPT ![r] = after.dimension]
           /\ vector_param' = [vector_param EXCEPT ![r] = after.vector_param]
           /\ IF after.thrown # ""
              THEN /\ result' = [result EXCEPT ![r] = CatchException(after.thrown)]
                   /\ pc' = [pc EXCEPT ![r] = "done"]
                   /\ idx' = idx
              ELSE /\ result' = result
                   /\ idx' = [idx EXCEPT ![r] = idx[r] + 1]
                   /\ pc' = [pc EXCEPT ![r] =
                                IF idx[r] = Len(order[r]) THEN "assemble" ELSE "loop"]
    /\ UNCHANGED <<request, order, extra_arg, collection_info, engine_log, catalog>>

\* Lines 100-114.
Assemble(r) ==
    /\ pc[r] = "assemble"
    /\ LET made == AssembleCollectionInfo(request[r], dimension[r], vector_param[r])
       IN  /\ collection_info' = [collection_info EXCEPT ![r] = made.info]
           /\ IF made.thrown # ""
              THEN /\ result' = [result EXCEPT ![r] = CatchException(made.thrown)]
                   /\ pc' = [pc EXCEPT ![r] = "done"]
              ELSE /\ result' = result
                   /\ pc' = [pc EXCEPT ![r] = "create"]
    /\ UNCHANGED <<request, order, extra_arg, idx, fields_schema, dimension,
                   vector_param, engine_log, catalog>>

\* Lines 116-131: step 3, the engine call and the status returned.
CreateCollection(r) ==
    /\ pc[r] = "create"
    /\ \E out \in DB_CreateHybridCollection(catalog, collection_info[r], fields_schema[r]) :
           /\ catalog' = out.catalog
           /\ engine_log' = [engine_log EXCEPT ![r] =
                                Append(@, [collection_info |-> collection_info[r],
                                           fields_schema   |-> fields_schema[r],
                                           status          |-> out.status])]
           /\ result' = [result EXCEPT ![r] = MapEngineStatus(out.status)]
    /\ pc' = [pc EXCEPT ![r] = "done"]
    /\ UNCHANGED <<request, order, extra_arg, idx, fields_schema, dimension,
                   vector_param, collection_info>>

Next ==
    \E r \in Reqs :
        \/ Validate(r)
        \/ FieldStep(r)
        \/ Assemble(r)
        \/ CreateCollection(r)

Spec == Init /\ [][Next]_vars

SpecConc == InitConc /\ [][Next]_vars

(***************************************************************************)
(* What the properties speak of, read off a request's arguments            *)
(***************************************************************************)
Done(r) == pc[r] = "done"

NameAccepted(r) ==
    ValidateCollectionName(request[r].collection_name_).code = "SERVER_SUCCESS"

\* The calls request r made to the engine.
CallsOf(r) == {engine_log[r][n] : n \in 1..Len(engine_log[r])}

FieldsOf(r) == DOMAIN request[r].field_types_

HasIndexEntry(r, f) == f \in DOMAIN request[r].field_index_params_

HasParamEntry(r, f) == f \in DOMAIN request[r].field_params_

\* Some field of the type map has no entry in one of the parameter maps.
MissingConfig(r) == \E f \in FieldsOf(r) : ~HasIndexEntry(r, f) \/ ~HasParamEntry(r, f)

IsVectorField(r, f) ==
    request[r].field_types_[f] \in {"FLOAT_VECTOR", "BINARY_VECTOR"}

\* The vector fields in the order the loop visits them.
VectorFields(r) == SelectSeq(order[r], LAMBDA f : IsVectorField(r, f))

ParamDoc(r, f) == Parse(request[r].field_params_[f])

\* Every vector field has a parameter text, and it is JSON.
VectorDocsParse(r) ==
    \A f \in FieldsOf(r) :
        IsVectorField(r, f) =>
            HasParamEntry(r, f) /\ request[r].field_params_[f].wellformed

\* The values the loop converts have the type it converts them to.
WellTyped(r) ==
    \A f \in FieldsOf(r) :
        /\ (HasIndexEntry(r, f) /\ Contains(request[r].field_index_params_[f], "name"))
               => request[r].field_index_params_[f].obj["name"].kind = "string"
        /\ (IsVectorField(r, f) /\ Contains(ParamDoc(r, f), "dimension"))
               => ParamDoc(r, f).obj["dimension"].kind = "number"

\* A document's value for key is absent or a key of the table.
Resolvable(doc, key, table) ==
    Contains(doc, key) =>
        doc.obj[key].kind = "string" /\ doc.obj[key].str \in DOMAIN table

LastVectorDoc(r) == ParamDoc(r, VectorFields(r)[Len(VectorFields(r))])

\* Name validation, every field's lookups and conversions, and the
\* resolution of the two codes all succeed.
StagesSucceed(r) ==
    /\ NameAccepted(r)
    /\ ~MissingConfig(r)
    /\ VectorDocsParse(r)
    /\ WellTyped(r)
    /\ VectorFields(r) # <<>> =>
           /\ Resolvable(LastVectorDoc(r), "metric_type", s_map_metric_type)
           /\ Resolvable(LastVectorDoc(r), "index_type", s_map_engine_type)

(***************************************************************************)
(* Properties                                                              *)
(***************************************************************************)

\* C1: when the validator rejects the collection name, OnExecute returns the
\* validator's status, processes no field and never calls the engine,
\* whatever the field maps hold.
C1_InvalidNameShortCircuits ==
    \A r \in Reqs :
        ~NameAccepted(r) =>
            /\ pc[r] \in {"validate", "done"}
            /\ Done(r) => result[r] = ValidateCollectionName(request[r].collection_name_)
            /\ fields_schema[r] = <<>>
            /\ idx[r] = 1
            /\ engine_log[r] = <<>>

\* C1 witness: a request with a rejected name and fields has returned.
C1_Witness ==
    \E r \in Reqs :
        /\ ~NameAccepted(r)
        /\ Done(r)
        /\ Len(order[r]) = MaxFields
        /\ result[r].code = "SERVER_INVALID_COLLECTION_NAME"

\* C2: once the engine is called the result is decided by the engine's
\* status: success gives OK, DB_ALREADY_EXIST gives
\* SERVER_INVALID_COLLECTION_NAME with the engine's message, any other
\* failure is returned unchanged.
C2_EngineStatusMapping ==
    \A r \in Reqs : \A call \in CallsOf(r) :
        /\ call.status.code = "SERVER_SUCCESS" => result[r] = StatusOK
        /\ call.status.code = "DB_ALREADY_EXIST" =>
               result[r] = Status("SERVER_INVALID_COLLECTION_NAME", call.status.message)
        /\ call.status.code \notin {"SERVER_SUCCESS", "DB_ALREADY_EXIST"} =>
               result[r] = call.status

\* C2 witness: the engine refused a name it holds, and the request returned
\* the remapped status.
C2_Witness ==
    \E r \in Reqs : \E call \in CallsOf(r) :
        /\ call.status.code = "DB_ALREADY_EXIST"
        /\ result[r].code = "SERVER_INVALID_COLLECTION_NAME"
        /\ result[r].message = "Collection already exists"

\* C3 as stated, read for a name the validator accepts: a field with no
\* entry in a parameter map makes OnExecute fail with a MissingFieldConfig
\* error, and the engine is never called.
C3_Original ==
    \A r \in Reqs :
        (NameAccepted(r) /\ MissingConfig(r)) =>
            /\ engine_log[r] = <<>>
            /\ Done(r) => result[r].code = "SERVER_MISSING_FIELD_CONFIG"

\* C3 amended: a field with no entry in a parameter map keeps the engine
\* from being called; with an accepted name OnExecute returns the catch
\* block's SERVER_UNEXPECTED_ERROR carrying the exception's description,
\* with a rejected name the validator's status.
C3_MissingConfigIsUnexpected ==
    \A r \in Reqs :
        MissingConfig(r) =>
            /\ engine_log[r] = <<>>
            /\ pc[r] \notin {"assemble", "create"}
            /\ Done(r) =>
                   IF NameAccepted(r)
                   THEN /\ result[r].code = "SERVER_UNEXPECTED_ERROR"
                        /\ result[r].message \in {"out_of_range", "type_error", "parse_error"}
                   ELSE result[r] = ValidateCollectionName(request[r].collection_name_)

\* C3 witness: the second field visited has no index entry, and the lookup's
\* exception was returned.
C3_Witness ==
    \E r \in Reqs :
        /\ NameAccepted(r)
        /\ Len(order[r]) >= 2
        /\ HasIndexEntry(r, order[r][1])
        /\ ~HasIndexEntry(r, order[r][2])
        /\ Done(r)
        /\ idx[r] = 2
        /\ result[r] = Status("SERVER_UNEXPECTED_ERROR", "out_of_range")

\* C4 as stated: the CollectionSchema handed to the engine has
\* index_file_size equal to the caller's segment_size when the extra
\* document has that key, and unset when it has not.
C4_Original ==
    \A r \in Reqs : \A call \in CallsOf(r) :
        call.collection_info.index_file_size_ =
            IF Contains(extra_arg[r], "segment_size")
            THEN Assigned(extra_arg[r].obj["segment_size"].num)
            ELSE Unset

\* The vector fields whose parameter document has a dimension key.
DimensionFields(r) ==
    SelectSeq(VectorFields(r), LAMBDA f : Contains(ParamDoc(r, f), "dimension"))

\* The code a document's value for key has in a table, unset without the key.
CodeOf(doc, key, table) ==
    IF Contains(doc, key) THEN Assigned(table[doc.obj[key].str]) ELSE Unset

\* C5 as stated: with more than one vector field, dimension, metric type and
\* engine type of the CollectionSchema are all three taken from the document
\* of the vector field visited last, whatever keys the documents have.
C5_Original ==
    \A r \in Reqs : \A call \in CallsOf(r) :
        Len(VectorFields(r)) > 1 =>
            /\ call.collection_info.dimension_ =
                   IF Contains(LastVectorDoc(r), "dimension")
                   THEN ToUint16(LastVectorDoc(r).obj["dimension"].num)
                   ELSE 0
            /\ call.collection_info.metric_type_ =
                   CodeOf(LastVectorDoc(r), "metric_type", s_map_metric_type)
            /\ call.collection_info.engine_type_ =
                   CodeOf(LastVectorDoc(r), "index_type", s_map_engine_type)

\* C5 amended: with more than one vector field, metric type and engine type
\* are taken from the document of the vector field visited last (unset when
\* it has not the key); the dimension is taken from the last visited vector
\* field whose document has a dimension key, and is 0 when none has.
C5_LastVectorWins ==
    \A r \in Reqs : \A call \in CallsOf(r) :
        Len(VectorFields(r)) > 1 =>
            /\ call.collection_info.dimension_ =
                   IF DimensionFields(r) = <<>> THEN 0
                   ELSE ToUint16(ParamDoc(r, DimensionFields(r)[Len(DimensionFields(r))])
                                     .obj["dimension"].num)
            /\ call.collection_info.metric_type_ =
                   CodeOf(LastVectorDoc(r), "metric_type", s_map_metric_type)
            /\ call.collection_info.engine_type_ =
                   CodeOf(LastVectorDoc(r), "index_type", s_map_engine_type)

\* C5 witness: two vector fields with different dimensions and different
\* metric keys reached the engine, which got the values of the second.
C5_Witness ==
    \E r \in Reqs : \E call \in CallsOf(r) :
        /\ Len(VectorFields(r)) = 2
        /\ Contains(ParamDoc(r, VectorFields(r)[1]), "dimension")
        /\ Contains(ParamDoc(r, VectorFields(r)[1]), "metric_type")
        /\ Contains(LastVectorDoc(r), "dimension")
        /\ ~Contains(LastVectorDoc(r), "metric_type")
        /\ ParamDoc(r, VectorFields(r)[1]).obj["dimension"].num = 8
        /\ LastVectorDoc(r).obj["dimension"].num = 65552
        /\ call.collection_info.dimension_ = 16
        /\ call.collection_info.metric_type_ = Unset

\* The last vector field's document names a metric or an index type that is
\* no key of its table.
LastVectorUnresolvable(r) ==
    /\ VectorFields(r) # <<>>
    /\ HasParamEntry(r, VectorFields(r)[Len(VectorFields(r))])
    /\ request[r].field_params_[VectorFields(r)[Len(VectorFields(r))]].wellformed
    /\ \/ ~Resolvable(LastVectorDoc(r), "metric_type", s_map_metric_type)
       \/ ~Resolvable(LastVectorDoc(r), "index_type", s_map_engine_type)

\* C6 as stated, read for a name the validator accepts: an unknown
\* metric_type or index_type of the last vector field makes OnExecute fail
\* with a MalformedParameter error before any engine call.
C6_Original ==
    \A r \in Reqs :
        (NameAccepted(r) /\ LastVectorUnresolvable(r)) =>
            /\ engine_log[r] = <<>>
            /\ Done(r) => result[r].code = "SERVER_MALFORMED_PARAMETER"

\* C6 amended: an unknown metric_type or index_type of the last vector field
\* keeps the engine from being called; with an accepted name OnExecute
\* returns the catch block's SERVER_UNEXPECTED_ERROR carrying the exception's
\* description, with a rejected name the validator's status.
C6_UnknownCodeIsUnexpected ==
    \A r \in Reqs :
        LastVectorUnresolvable(r) =>
            /\ engine_log[r] = <<>>
            /\ pc[r] # "create"
            /\ Done(r) =>
                   IF NameAccepted(r)
                   THEN /\ result[r].code = "SERVER_UNEXPECTED_ERROR"
                        /\ result[r].message \in {"out_of_range", "type_error", "parse_error"}
                   ELSE result[r] = ValidateCollectionName(request[r].collection_name_)

\* C6 witness: the loop built every field, the lookup of the unknown metric
\* threw, and the exception was returned.
C6_Witness ==
    \E r \in Reqs :
        /\ LastVectorUnresolvable(r)
        /\ ~Resolvable(LastVectorDoc(r), "metric_type", s_map_metric_type)
        /\ Done(r)
        /\ Len(fields_schema[r]) = Len(order[r])
        /\ idx[r] = Len(order[r]) + 1
        /\ result[r] = Status("SERVER_UNEXPECTED_ERROR", "out_of_range")
        /\ engine_log[r] = <<>>

\* The locals after the loop of lines 75-98 has visited the first n fields
\* of ord, from the locals as declared; thrown is the first exception.
RECURSIVE LoopOver(_, _, _)
LoopOver(req, ord, n) ==
    IF n = 0 THEN LoopState("", <<>>, 0, JNull)
    ELSE LET before == LoopOver(req, ord, n - 1)
         IN  IF before.thrown # "" THEN before
             ELSE VisitField(req, ord[n], before.fields_schema, before.dimension,
                             before.vector_param)

\* The CollectionSchema OnExecute makes of the request with the scalar
\* fields taken out of the iteration.
VectorOnlyInfo(r) ==
    LET after == LoopOver(request[r], VectorFields(r), Len(VectorFields(r)))
    IN  AssembleCollectionInfo(request[r], after.dimension, after.vector_param).info

C8_OneCallWithFullSchema ==
    \A r \in Reqs :
        /\ Len(engine_log[r]) <= 1
        /\ ~Done(r) => engine_log[r] = <<>>
        /\ Done(r) => (Len(engine_log[r]) = 1 <=> StagesSucceed(r))
        /\ \A call \in CallsOf(r) :
               /\ Len(call.fields_schema) = Cardinality(FieldsOf(r))
               /\ {call.fields_schema[n].field_name_ :
                       n \in 1..Len(call.fields_schema)} = FieldsOf(r)

\* C8 witness: a request with as many fields as the bound allows called the
\* engine once, was refused by it for a reason of the engine's own, and did
\* not call again.
C8_Witness ==
    \E r \in Reqs :
        /\ Done(r)
        /\ Len(order[r]) = MaxFields
        /\ StagesSucceed(r)
        /\ Len(engine_log[r]) = 1
        /\ engine_log[r][1].status.code = "DB_META_TRANSACTION_FAILED"

\* Every field of the type map has an entry in both parameter maps.
CompleteMaps(r) == ~MissingConfig(r)

\* One FieldSchema per field of the type map, in iteration order, each with
\* the field's own entries.
ExpectedFieldsSchema(r) ==
    [n \in 1..Len(order[r]) |->
        LET f == order[r][n]
            index_doc == request[r].field_index_params_[f]
        IN  [collection_id_ |-> request[r].collection_name_,
             field_name_    |-> f,
             field_type_    |-> request[r].field_types_[f],
             index_name_    |-> IF "name" \in DOMAIN index_doc.obj
                                THEN index_doc.obj["name"].str ELSE "",
             index_param_   |-> Dump(index_doc),
             field_params_  |-> request[r].field_params_[f]]]

\* C9 as stated, read for a name the validator accepts: when every field
\* has an entry in both parameter maps and every vector field's document
\* parses, the loop produces exactly one FieldSchema per field, in iteration
\* order, with the field's own name, type, parameter text, serialized index
\* document and index name.
C9_Original ==
    \A r \in Reqs :
        (NameAccepted(r) /\ CompleteMaps(r) /\ VectorDocsParse(r)) =>
            (Done(r) => fields_schema[r] = ExpectedFieldsSchema(r))

\* C9 amended: as stated, provided also that every `name` an index document
\* holds is a string and every `dimension` a vector field's document holds
\* is a number (the conversion of any other value throws, and the request
\* fails with SERVER_UNEXPECTED_ERROR).
C9_OneSchemaPerField ==
    \A r \in Reqs :
        (NameAccepted(r) /\ CompleteMaps(r) /\ VectorDocsParse(r) /\ WellTyped(r)) =>
            /\ pc[r] = "loop" =>
                   fields_schema[r] = SubSeq(ExpectedFieldsSchema(r), 1, idx[r] - 1)
            /\ pc[r] \in {"assemble", "create", "done"} =>
                   fields_schema[r] = ExpectedFieldsSchema(r)
            /\ \A call \in CallsOf(r) : call.fields_schema = ExpectedFieldsSchema(r)

\* C9 witness: the engine was handed the schemas of a field whose index
\* document has a name and of one whose index document has none.
C9_Witness ==
    \E r \in Reqs : \E call \in CallsOf(r) :
        /\ Len(order[r]) >= 2
        /\ Contains(request[r].field_index_params_[order[r][1]], "name")
        /\ ~Contains(request[r].field_index_params_[order[r][2]], "name")
        /\ call.fields_schema[1].index_name_ = "idx"
        /\ call.fields_schema[2].index_name_ = ""
        /\ call.fields_schema[2].index_param_.members = <<>>
        /\ Len(call.fields_schema) = Len(order[r])

\* C10: of two requests that run concurrently and create the same accepted
\* name (their own stages succeeding, the engine failing for no reason of
\* its own), at most one returns OK and the other returns
\* SERVER_INVALID_COLLECTION_NAME with the engine's "already exists"
\* message; no interleaving gives two OK results or a catalog with two
\* collections of one name.
C10_ConcurrentCreateOneWinner ==
    /\ \A m, n \in 1..Len(catalog) :
           catalog[m].collection.collection_id_ = catalog[n].collection.collection_id_
               => m = n
    /\ \A r1, r2 \in Reqs :
           (/\ r1 # r2
            /\ request[r1].collection_name_ = request[r2].collection_name_
            /\ NameAccepted(r1)) =>
               /\ ~(result[r1] = StatusOK /\ result[r2] = StatusOK)
               /\ (/\ Done(r1) /\ Done(r2)
                   /\ StagesSucceed(r1) /\ StagesSucceed(r2)
                   /\ result[r1] = StatusOK
                   /\ \A call \in CallsOf(r2) :
                          call.status.code # "DB_META_TRANSACTION_FAILED") =>
                      result[r2] = Status("SERVER_INVALID_COLLECTION_NAME",
                                          "Collection already exists")

\* C10 witness: two requests for the same new name have both returned, one
\* with OK and one with the remapped conflict.
C10_Witness ==
    \E r1, r2 \in Reqs :
        /\ r1 # r2
        /\ request[r1].collection_name_ = "c1"
        /\ request[r2].collection_name_ = "c1"
        /\ Done(r1) /\ Done(r2)
        /\ result[r1] = StatusOK
        /\ result[r2].code = "SERVER_INVALID_COLLECTION_NAME"
        /\ Len(engine_log[r2]) = 1

====
